---- MODULE Spec2Model ----
(***************************************************************************)
(* Model of the R3 chain auditor (src/unnamed/part_000): the certificate   *)
(* chain decoder and audit rule (rawToChain, chainContainsR3, auditChain), *)
(* the TLS prober (auditHostname) and the producer / worker-pool /         *)
(* collector pipeline of main.                                             *)
(*                                                                         *)
(* The specifications share the variables:                                  *)
(*   Spec       the pipeline of main (goroutines, channels, WaitGroup);    *)
(*   FairSpec   Spec with the fairness of the Go scheduler;                *)
(*   AuditSpec  auditChain applied to every raw chain of a bounded set;    *)
(*   ConnSpec   Spec with the count of the connections left open;          *)
(*   ProbeSpec  concurrent calls of auditHostname, step by step;           *)
(*   CliSpec    flag parsing and the usage error of main;                  *)
(*   ReverseSpec reverseHostname applied once and twice;                   *)
(*   ContactSpec run of the contact auditor                                *)
(*              (src/cmd/contact-auditor/main.go).                         *)
(***************************************************************************)
EXTENDS Naturals, Integers, Sequences, FiniteSets, Bags, TLC

(***************************************************************************)
(* Bounds of the model.                                                    *)
(***************************************************************************)
\* longest hostname list main is started with
MaxHosts == 11
\* longest hostname list of mixed hostnames, audited with and without debug
MaxMixed == 2
\* longest raw certificate chain handed to auditChain
MaxChainLen == 3
\* most calls of auditHostname running at once in ProbeSpec
MaxProbes == 2
\* most command-line arguments in CliSpec
MaxArgs == 2
\* longest hostname handed to reverseHostname
MaxNameLen == 4
\* most rows the query of the contact auditor selects
MaxResults == 2
\* most entries of one contact field
MaxEntries == 2

(***************************************************************************)
(* Program constants.                                                      *)
(***************************************************************************)
\* const r3 = "R3"
r3 == "R3"
\* for i := 0; i < 10; i++
NumWorkers == 10

\* var debugMode bool, set by the --debug flag
VARIABLE debugMode

\* the value of a call that does not return: a Go run-time panic
\* (index out of range, send on closed channel) aborts the whole process
PANIC == "panic"

(***************************************************************************)
(* Certificates.  A raw record is the DER encoding of a certificate or     *)
(* bytes that x509.ParseCertificate rejects.  Only the two common names    *)
(* the program reads are kept.                                             *)
(***************************************************************************)
CommonNames == {"R3", "example.com", "OtherCA", ""}

Malformed == [der |-> FALSE, subjectCN |-> "", issuerCN |-> ""]

RawRecords ==
    {Malformed} \cup
    {[der |-> TRUE, subjectCN |-> s, issuerCN |-> i] :
        s \in CommonNames, i \in CommonNames}

RawChains == UNION {[1..n -> RawRecords] : n \in 0..MaxChainLen}

\* x509.ParseCertificate: the error flag and the parsed certificate
ParseCertificate(rawCert) ==
    [err  |-> ~rawCert.der,
     cert |-> [Subject |-> [CommonName |-> rawCert.subjectCN],
               Issuer  |-> [CommonName |-> rawCert.issuerCN]]]

\* chain[1:]
\* chain[1:], which panics (slice bounds out of range) on the empty chain
Rest(chain) == IF Len(chain) = 0 THEN PANIC ELSE SubSeq(chain, 2, Len(chain))

chainContainsR3_FirstOnly(chain) ==
    /\ Len(chain) >= 2
    /\ chain[2].Subject.CommonName = r3

chainContainsR3_WholeChain(chain) ==
    \E k \in 1..Len(chain) : chain[k].Subject.CommonName = r3

\* func chainContainsR3: some certificate after the leaf has subject CN r3;
\* on the empty chain chain[1:] panics
chainContainsR3(chain) ==
    IF Len(chain) = 0 THEN PANIC
    ELSE \E k \in 1..Len(Rest(chain)) : Rest(chain)[k].Subject.CommonName = r3

RECURSIVE rawToChainFrom_StopAtError(_, _, _)
rawToChainFrom_StopAtError(rawCerts, k, chain) ==
    IF k > Len(rawCerts) THEN chain
    ELSE LET p == ParseCertificate(rawCerts[k])
         IN  IF p.err
             THEN chain
             ELSE rawToChainFrom_StopAtError(rawCerts, k + 1, Append(chain, p.cert))

RECURSIVE rawToChainFrom(_, _, _)
\* the loop of rawToChain from record k on, chain being what is appended so far
rawToChainFrom(rawCerts, k, chain) ==
    IF k > Len(rawCerts) THEN chain
    ELSE LET p == ParseCertificate(rawCerts[k])
         IN  IF p.err
             THEN rawToChainFrom(rawCerts, k + 1, chain)
             ELSE rawToChainFrom(rawCerts, k + 1, Append(chain, p.cert))

\* func rawToChain
rawToChain(rawCerts) == rawToChainFrom(rawCerts, 1, <<>>)

\* func chaing2String: the rendered trace, as the sequence of its fields
RECURSIVE chaing2StringFrom(_, _)
chaing2StringFrom(rest, num) ==
    IF num >= Len(rest) THEN <<>>
    ELSE <<"chainCert", ToString(num),
           rest[num + 1].Subject.CommonName, rest[num + 1].Issuer.CommonName>>
         \o chaing2StringFrom(rest, num + 1)

\* chaing2String reads chain[0]: it panics on a chain without certificate
chaing2StringPanics(chain) == Len(chain) = 0

chaing2String(chain) ==
    IF chaing2StringPanics(chain) THEN PANIC
    ELSE <<"leafCert", chain[1].Subject.CommonName, chain[1].Issuer.CommonName>>
         \o chaing2StringFrom(Rest(chain), 0)

\* the lines auditChain prints: the trace, in debug mode, of a chain of
\* more than one certificate
auditChainPrints(rawCerts, debug) ==
    LET chain == rawToChain(rawCerts)
    IN  IF Len(chain) > 1 /\ debug THEN <<chaing2String(chain)>> ELSE <<>>

auditChain_NoIssuerTest(rawCerts) ==
    LET chain == rawToChain(rawCerts)
    IN  IF Len(chain) = 0 THEN PANIC
        ELSE IF Len(chain) > 1 /\ ~chainContainsR3(chain)
             THEN chain[1].Subject.CommonName
             ELSE ""

auditChainIn_DebugReturnsEarly(rawCerts, debug) ==
    LET chain == rawToChain(rawCerts)
    IN  IF Len(chain) = 0 THEN PANIC
        ELSE LET leafIssuerCN == chain[1].Issuer.CommonName
             IN  IF Len(chain) > 1
                 THEN IF debug
                      THEN ""
                      ELSE IF leafIssuerCN = r3 /\ ~chainContainsR3(chain)
                           THEN chain[1].Subject.CommonName
                           ELSE ""
                 ELSE ""

\* func auditChain with debugMode = debug.  chain[0] is read before the
\* length is tested: on a decoded chain of length 0 the index is out of
\* range and the call panics.  In debug mode the trace of a chain of more
\* than one certificate is rendered before the test of the issuer.
auditChainIn(rawCerts, debug) ==
    LET chain == rawToChain(rawCerts)
    IN  IF Len(chain) = 0 THEN PANIC
        ELSE LET leafIssuerCN == chain[1].Issuer.CommonName
             IN  IF Len(chain) > 1
                 THEN IF debug /\ chaing2StringPanics(chain)
                      THEN PANIC
                      ELSE IF leafIssuerCN = r3 /\ ~chainContainsR3(chain)
                           THEN chain[1].Subject.CommonName
                           ELSE ""
                 ELSE ""

\* func auditChain, reading the global debugMode
auditChain(rawCerts) == auditChainIn(rawCerts, debugMode)


\* the raw record of a certificate with subject CN s and issuer CN i
leaf(s, i) == [der |-> TRUE, subjectCN |-> s, issuerCN |-> i]

\* tls.DialWithDialer (line 97) calls the VerifyPeerCertificate hook only
\* with the certificate message of the server: crypto/tls fails the
\* handshake before the hook when the message holds no certificate or a
\* record that does not parse
HookReached(served) ==
    /\ Len(served) > 0
    /\ \A k \in 1..Len(served) : served[k].der

\* the raw chains the hook is handed in ProbeSpec: a leaf alone, a leaf of
\* r3 served without r3, a leaf of r3 served with r3
ServedChains ==
    {<<leaf("example.com", "R3")>>,
     <<leaf("example.com", "R3"), leaf("OtherCA", "OtherCA")>>,
     <<leaf("example.com", "R3"), leaf("R3", "OtherCA")>>}

\* the outcomes of one tls.DialWithDialer: the dial or the handshake fails
\* before the VerifyPeerCertificate hook runs, or the hook runs on the raw
\* chain it is handed and the handshake then completes or fails
DialOutcomes ==
    {[hook |-> FALSE, rawCerts |-> <<>>, handshake |-> FALSE]} \cup
    {[hook |-> TRUE, rawCerts |-> c, handshake |-> h] :
        c \in ServedChains, h \in BOOLEAN}

\* func auditHostname: result starts "", the hook stores auditChain's value
\* in it, the error of DialWithDialer is dropped and result is returned
auditHostname(hostname, dial) ==
    IF dial.hook THEN auditChain(dial.rawCerts) ELSE ""

(***************************************************************************)
(* Hostnames of the tsv file.  A string is the sequence of its characters. *)
(***************************************************************************)
Chars == {"a", "b", "."}

Names == UNION {[1..n -> Chars] : n \in 0..MaxNameLen}

RECURSIVE SplitFrom(_, _, _, _, _)
\* strings.Split from character k on: cur is the label being read, acc the
\* labels before it
SplitFrom(s, sep, k, cur, acc) ==
    IF k > Len(s) THEN Append(acc, cur)
    ELSE IF s[k] = sep
         THEN SplitFrom(s, sep, k + 1, <<>>, Append(acc, cur))
         ELSE SplitFrom(s, sep, k + 1, Append(cur, s[k]), acc)

Split_DropEmpty(s, sep) ==
    SelectSeq(SplitFrom(s, sep, 1, <<>>, <<>>), LAMBDA l : l # <<>>)

\* strings.Split(s, sep) for a separator of one character
Split(s, sep) == SplitFrom(s, sep, 1, <<>>, <<>>)

RECURSIVE Join(_, _)
\* strings.Join(labels, sep)
Join(labels, sep) ==
    IF Len(labels) = 0 THEN <<>>
    ELSE IF Len(labels) = 1 THEN labels[1]
         ELSE labels[1] \o <<sep>> \o Join(Tail(labels), sep)

RECURSIVE SwapLoop(_, _, _)
\* the loop of reverseHostname: swap labels[i] and labels[j] while i < j
SwapLoop(labels, i, j) ==
    IF i < j
    THEN SwapLoop([labels EXCEPT ![i] = labels[j], ![j] = labels[i]], i + 1, j - 1)
    ELSE labels

\* func reverseHostname
reverseHostname(hostname) ==
    LET labels == Split(hostname, ".")
    IN  Join(SwapLoop(labels, 1, Len(labels)), ".")

\* the loop of statsTsvToHostnames from row k on: a row the csv reader
\* rejects ends the process through log.Fatalln
RECURSIVE readFrom(_, _, _)
readFrom(rows, k, hostnames) ==
    IF k > Len(rows) THEN [fatal |-> "", hostnames |-> hostnames]
    ELSE IF rows[k].err
         THEN [fatal |-> "Issue parsing entry in tsv file", hostnames |-> <<>>]
         ELSE readFrom(rows, k + 1,
                       Append(hostnames, reverseHostname(rows[k].first)))

\* func statsTsvToHostnames on the file the path names: fatal is the message
\* of log.Fatalln, "" when the function returns hostnames
statsTsvToHostnames(tsvFile) ==
    IF ~tsvFile.opens
    THEN [fatal |-> "Couldn't open the tsv file", hostnames |-> <<>>]
    ELSE readFrom(tsvFile.rows, 1, <<>>)

(***************************************************************************)
(* The command line.                                                       *)
(***************************************************************************)
DebugFlag == "--debug"

TsvFlag == "--stats-tsv-file=stats.tsv"

ArgTokens == {DebugFlag, TsvFlag, "a.com", "b.com"}

ArgLists == UNION {[1..n -> ArgTokens] : n \in 0..MaxArgs}

\* a row of the tsv file: its first column, or a row the reader rejects
TsvRow(first) == [err |-> FALSE, first |-> first]

BadRow == [err |-> TRUE, first |-> <<>>]

\* no file at the path
NoFile == [opens |-> FALSE, rows |-> <<>>]

\* what the path of --stats-tsv-file may name: no file, a file without
\* row, the row "b.a", that row followed by a rejected one, a rejected row
TsvFiles ==
    {NoFile} \cup
    {[opens |-> TRUE, rows |-> r] :
        r \in {<<>>, <<TsvRow(<<"b", ".", "a">>)>>,
               <<TsvRow(<<"b", ".", "a">>), BadRow>>, <<BadRow>>}}

RECURSIVE flagParseFrom(_, _, _)
\* flag.Parse from argument k on: flags are read up to the first argument
\* that is not one; parsed is [debug, statsTsv]
flagParseFrom(argv, k, parsed) ==
    IF k > Len(argv) THEN parsed
    ELSE IF argv[k] = DebugFlag
         THEN flagParseFrom(argv, k + 1, [parsed EXCEPT !.debug = TRUE])
         ELSE IF argv[k] = TsvFlag
              THEN flagParseFrom(argv, k + 1, [parsed EXCEPT !.statsTsv = "stats.tsv"])
              ELSE parsed

\* main, lines 139-142
flagParse(argv) == flagParseFrom(argv, 1, [debug |-> FALSE, statsTsv |-> ""])

(***************************************************************************)
(* The pipeline of main.                                                   *)
(***************************************************************************)
\* the hostnames main may be started with
HostPool == {"a.com", "b.com", "c.com"}

\* the certificate messages the server of a hostname may send in the
\* pipeline: a.com sends a leaf of r3 with r3, b.com a leaf of r3 without
\* r3, c.com no certificate, a record that does not parse or a leaf alone
ServedBy(hostname) ==
    CASE hostname = "a.com" ->
             {<<leaf("example.com", "R3"), leaf("R3", "OtherCA")>>}
      [] hostname = "b.com" ->
             {<<leaf("example.com", "R3"), leaf("OtherCA", "OtherCA")>>}
      [] OTHER ->
             {<<>>, <<Malformed>>, <<leaf("example.com", "R3")>>}

\* every list of at most MaxMixed hostnames of the pool
MixedLists == UNION {[1..n -> HostPool] : n \in 0..MaxMixed}

\* the lists of up to MaxHosts entries that name the same host
UniformLists == {[k \in 1..n |-> "a.com"] : n \in 0..MaxHosts}

\* the invocations of main: a hostname list and the --debug flag
Invocations ==
    {[hostnames |-> l, debug |-> d] : l \in MixedLists, d \in BOOLEAN} \cup
    {[hostnames |-> l, debug |-> FALSE] : l \in UniformLists}

\* the grave accent, which a string of this language cannot hold
GraveAccent == "U+0060"

\* the message of line 151, as the sequence of its pieces
Usage ==
    <<"You must supply at least one hostname via stdin or tsv file using ",
      GraveAccent, "--stats-tsv-file", GraveAccent>>

VARIABLES
    hostnames,   \* the list main audits
    status,      \* "running", "exit0", "exit1" (os.Exit(1)) or "panic"
    pcMain,      \* position of main
    spawned,     \* i of the loop that starts the workers
    pcProd,      \* position of the producer goroutine
    next,        \* index of the hostname the producer sends next
    hnChan,      \* [buf, closed]: buffered channel of capacity len(hostnames)
    resChan,     \* [closed]: unbuffered channel
    doneChan,    \* [buf]: buffered channel of capacity 1
    wg,          \* counter of the WaitGroup
    workers,     \* bag of the local states [pc, hostname, result] of the started
                 \* workers; a field is "" where the worker no longer reads it
    pcColl,      \* position of the collector goroutine
    result,      \* the collector's loop variable
    stdout,      \* what is printed, in order: [nl, by, line], nl telling
                 \* whether a line end follows (Println) or not (Print)
    probed,      \* bag of the hostnames auditHostname was invoked with
    returned,    \* bag of the values auditHostname returned
    openConns,   \* number of connections opened and not closed
    rawCerts,    \* AuditSpec: the argument of auditChain
    verdict,     \* AuditSpec: what auditChain returned, "?" before the call
    decoded,     \* AuditSpec: the chain rawToChain returned inside the call
    probes,      \* ProbeSpec: the calls of auditHostname in progress
    args,        \* CliSpec: os.Args[1:]
    tsvFile,     \* CliSpec: the file at the path of --stats-tsv-file
    stderr,      \* CliSpec: the messages of log.Fatalln
    name,        \* ReverseSpec: the argument of reverseHostname
    reversed,    \* ReverseSpec: reverseHostname(name)
    twice,       \* ReverseSpec: reverseHostname(reversed)
    holder,      \* ContactSpec: the rows the query selects
    queryErr,    \* ContactSpec: whether collectContacts fails
    results,     \* ContactSpec: the queryResults of collectContacts
    ridx,        \* ContactSpec: index of the result run handles next
    runRet       \* ContactSpec: what run returned, [results, err]

auditVars == <<rawCerts, verdict, decoded>>

cliVars == <<args, tsvFile, stderr>>

reverseVars == <<name, reversed, twice>>

contactVars == <<holder, queryErr, results, ridx, runRet>>

\* what the pipeline of main leaves alone
harnessVars == <<openConns, auditVars, probes, cliVars, reverseVars, contactVars>>

vars == <<hostnames, debugMode, status, pcMain, spawned, pcProd, next, hnChan,
          resChan, doneChan, wg, workers, pcColl, result, stdout, probed,
          returned, harnessVars>>

\* the values of the variables a specification does not use
AuditIdle == rawCerts = <<>> /\ verdict = "?" /\ decoded = <<>>

ProbeIdle == probes = <<>>

CliIdle == args = <<>> /\ tsvFile = NoFile /\ stderr = <<>>

ReverseIdle == name = <<>> /\ reversed = <<>> /\ twice = <<>>

ContactIdle ==
    /\ holder = <<>> /\ queryErr = FALSE
    /\ results = <<>> /\ ridx = 0 /\ runRet = <<>>

PipelineIdle ==
    /\ spawned = 0
    /\ pcProd = "idle"
    /\ next = 1
    /\ hnChan = [buf |-> <<>>, closed |-> FALSE]
    /\ resChan = [closed |-> FALSE]
    /\ doneChan = [buf |-> <<>>]
    /\ wg = 0
    /\ workers = EmptyBag
    /\ pcColl = "idle"
    /\ result = ""
    /\ probed = EmptyBag
    /\ returned = EmptyBag
    /\ openConns = 0

Worker(pc, hostname, res) == [pc |-> pc, hostname |-> hostname, result |-> res]

One(x) == SetToBag({x})

Running == status = "running"

Init ==
    /\ \E inv \in Invocations :
        /\ hostnames = inv.hostnames
        /\ debugMode = inv.debug
    /\ status = "running"
    /\ pcMain = "start"
    /\ spawned = 0
    /\ pcProd = "idle"
    /\ next = 1
    /\ hnChan = [buf |-> <<>>, closed |-> FALSE]
    /\ resChan = [closed |-> FALSE]
    /\ doneChan = [buf |-> <<>>]
    /\ wg = 0
    /\ workers = EmptyBag
    /\ pcColl = "idle"
    /\ result = ""
    /\ stdout = <<>>
    /\ probed = EmptyBag
    /\ returned = EmptyBag
    /\ openConns = 0
    /\ AuditIdle /\ ProbeIdle /\ CliIdle /\ ReverseIdle /\ ContactIdle

\* main, lines 150-164: without hostnames print the usage and exit 1;
\* else make the channels and start the producer
MainStart ==
    /\ Running /\ pcMain = "start"
    /\ IF Len(hostnames) = 0
       THEN /\ stdout' = Append(stdout, [nl |-> FALSE, by |-> "main", line |-> Usage])
            /\ status' = "exit1"
            /\ UNCHANGED <<pcMain, pcProd>>
       ELSE /\ pcMain' = "spawn"
            /\ pcProd' = "send"
            /\ UNCHANGED <<stdout, status>>
    /\ UNCHANGED <<hostnames, debugMode, spawned, next, hnChan, resChan,
                   doneChan, wg, workers, pcColl, result, probed, returned,
                   harnessVars>>

\* producer, lines 160-162: hnChan <- hostname (the buffer holds the whole list)
ProducerSend ==
    /\ Running /\ pcProd = "send"
    /\ next <= Len(hostnames)
    /\ Len(hnChan.buf) < Len(hostnames)
    /\ hnChan' = [hnChan EXCEPT !.buf = Append(@, hostnames[next])]
    /\ next' = next + 1
    /\ UNCHANGED <<hostnames, debugMode, status, pcMain, spawned, pcProd,
                   resChan, doneChan, wg, workers, pcColl, result, stdout,
                   probed, returned, harnessVars>>

ProducerClose_NoClose ==
    /\ Running /\ pcProd = "send"
    /\ next > Len(hostnames)
    /\ pcProd' = "done"
    /\ UNCHANGED <<hostnames, debugMode, status, pcMain, spawned, next, hnChan,
                   resChan, doneChan, wg, workers, pcColl, result, stdout,
                   probed, returned, harnessVars>>

\* producer, line 163: close(hnChan)
ProducerClose ==
    /\ Running /\ pcProd = "send"
    /\ next > Len(hostnames)
    /\ hnChan' = [hnChan EXCEPT !.closed = TRUE]
    /\ pcProd' = "done"
    /\ UNCHANGED <<hostnames, debugMode, status, pcMain, spawned, next,
                   resChan, doneChan, wg, workers, pcColl, result, stdout,
                   probed, returned, harnessVars>>

MainSpawnWorker_OneMore ==
    /\ Running /\ pcMain = "spawn"
    /\ spawned <= NumWorkers
    /\ wg' = wg + 1
    /\ workers' = workers (+) One(Worker("recv", "", ""))
    /\ spawned' = spawned + 1
    /\ UNCHANGED <<hostnames, debugMode, status, pcMain, pcProd, next, hnChan,
                   resChan, doneChan, pcColl, result, stdout, probed,
                   returned, harnessVars>>

\* main, lines 167-175: wg.Add(1); go worker
MainSpawnWorker ==
    /\ Running /\ pcMain = "spawn"
    /\ spawned < NumWorkers
    /\ wg' = wg + 1
    /\ workers' = workers (+) One(Worker("recv", "", ""))
    /\ spawned' = spawned + 1
    /\ UNCHANGED <<hostnames, debugMode, status, pcMain, pcProd, next, hnChan,
                   resChan, doneChan, pcColl, result, stdout, probed,
                   returned, harnessVars>>

\* main, lines 177-184: go collector
MainSpawnCollector ==
    /\ Running /\ pcMain = "spawn"
    /\ spawned >= NumWorkers
    /\ pcColl' = "recv"
    /\ pcMain' = "wait"
    /\ UNCHANGED <<hostnames, debugMode, status, spawned, pcProd, next, hnChan,
                   resChan, doneChan, wg, workers, result, stdout, probed,
                   returned, harnessVars>>

WorkerRecv_NoDequeue ==
    /\ Running
    /\ BagIn(Worker("recv", "", ""), workers)
    /\ Len(hnChan.buf) > 0
    /\ workers' = (workers (-) One(Worker("recv", "", "")))
                      (+) One(Worker("probe", Head(hnChan.buf), ""))
    /\ probed' = probed (+) One(Head(hnChan.buf))
    /\ UNCHANGED <<hostnames, debugMode, status, pcMain, spawned, pcProd, next,
                   hnChan, resChan, doneChan, wg, pcColl, result, stdout,
                   returned, harnessVars>>

\* worker, lines 170-171: receive the next hostname of hnChan and call
\* auditHostname with it (the worker does nothing another goroutine could
\* see between the two); the call starts with result "" (line 87) and
\* tls.DialWithDialer starts (line 97)
WorkerRecv ==
    /\ Running
    /\ BagIn(Worker("recv", "", ""), workers)
    /\ Len(hnChan.buf) > 0
    /\ workers' = (workers (-) One(Worker("recv", "", "")))
                      (+) One(Worker("probe", Head(hnChan.buf), ""))
    /\ probed' = probed (+) One(Head(hnChan.buf))
    /\ hnChan' = [hnChan EXCEPT !.buf = Tail(@)]
    /\ UNCHANGED <<hostnames, debugMode, status, pcMain, spawned, pcProd, next,
                   resChan, doneChan, wg, pcColl, result, stdout, returned,
                   harnessVars>>

\* worker inside auditHostname, lines 91-95: the handshake of the dial
\* hands the served chain to the VerifyPeerCertificate hook, which stores
\* what auditChain returns in result; auditChain prints the trace in debug
\* mode, and a panic in it ends the process.  The call has not returned.
WorkerHook ==
    /\ Running
    /\ \E w \in BagToSet(workers) : \E served \in ServedBy(w.hostname) :
        /\ w.pc = "probe"
        /\ HookReached(served)
        /\ LET misconfiguredCertCN == auditChain(served)
               prints == auditChainPrints(served, debugMode)
           IN  IF misconfiguredCertCN = PANIC
               THEN /\ status' = "panic"
                    /\ UNCHANGED <<workers, stdout>>
               ELSE /\ workers' = (workers (-) One(w))
                           (+) One(Worker("hooked", "", misconfiguredCertCN))
                    /\ stdout' = stdout \o
                           [k \in 1..Len(prints) |->
                               [nl |-> TRUE, by |-> "auditChain",
                                line |-> prints[k]]]
                    /\ UNCHANGED status
    /\ UNCHANGED <<hostnames, debugMode, pcMain, spawned, pcProd, next, hnChan,
                   resChan, doneChan, wg, pcColl, result, probed, returned,
                   harnessVars>>

WorkerReturn_PanicOnDialError ==
    /\ Running
    /\ \E w \in BagToSet(workers) :
        /\ w.pc \in {"probe", "hooked"}
        /\ IF w.pc = "probe"
           THEN /\ status' = "panic"
                /\ UNCHANGED <<workers, returned>>
           ELSE /\ workers' = (workers (-) One(w))
                                 (+) One(Worker("send", "", w.result))
                /\ returned' = returned (+) One(w.result)
                /\ UNCHANGED status
    /\ UNCHANGED <<hostnames, debugMode, pcMain, spawned, pcProd, next, hnChan,
                   resChan, doneChan, wg, pcColl, result, stdout, probed,
                   harnessVars>>

\* worker inside auditHostname, lines 97-98: tls.DialWithDialer returns,
\* before the hook has run (the dial or the handshake failed) or after it
\* (the handshake completed or failed); its values are dropped and
\* auditHostname returns result.  Nothing in the pipeline reads the number
\* of open connections, and Spec leaves it out; ConnSpec counts it.
WorkerReturn ==
    /\ Running
    /\ \E w \in BagToSet(workers) :
        /\ w.pc \in {"probe", "hooked"}
        /\ workers' = (workers (-) One(w)) (+) One(Worker("send", "", w.result))
        /\ returned' = returned (+) One(w.result)
    /\ UNCHANGED <<hostnames, debugMode, status, pcMain, spawned, pcProd, next,
                   hnChan, resChan, doneChan, wg, pcColl, result, stdout,
                   probed, harnessVars>>

\* worker, line 171, and collector, line 178: resChan <- result meets the
\* collector's receive (resChan has no buffer); a send on the closed channel
\* panics
WorkerSend ==
    /\ Running
    /\ \E w \in BagToSet(workers) :
        /\ w.pc = "send"
        /\ IF resChan.closed
           THEN /\ status' = "panic"
                /\ UNCHANGED <<workers, pcColl, result>>
           ELSE /\ pcColl = "recv"
                /\ pcColl' = "got"
                /\ result' = w.result
                /\ workers' = (workers (-) One(w)) (+) One(Worker("recv", "", ""))
                /\ UNCHANGED status
    /\ UNCHANGED <<hostnames, debugMode, pcMain, spawned, pcProd, next, hnChan,
                   resChan, doneChan, wg, stdout, probed, returned, harnessVars>>

\* worker, lines 170 and 173: hnChan is closed and drained, the loop ends; wg.Done()
WorkerDone ==
    /\ Running
    /\ BagIn(Worker("recv", "", ""), workers)
    /\ Len(hnChan.buf) = 0 /\ hnChan.closed
    /\ workers' = (workers (-) One(Worker("recv", "", "")))
                      (+) One(Worker("done", "", ""))
    /\ wg' = wg - 1
    /\ UNCHANGED <<hostnames, debugMode, status, pcMain, spawned, pcProd, next,
                   hnChan, resChan, doneChan, pcColl, result, stdout, probed,
                   returned, harnessVars>>

CollectorPrint_EmptyToo ==
    /\ Running /\ pcColl = "got"
    /\ stdout' = Append(stdout, [nl |-> TRUE, by |-> "collector", line |-> <<result>>])
    /\ pcColl' = "recv"
    /\ UNCHANGED <<hostnames, debugMode, status, pcMain, spawned, pcProd, next,
                   hnChan, resChan, doneChan, wg, workers, result, probed,
                   returned, harnessVars>>

\* collector, lines 179-181: print a non-empty result
CollectorPrint ==
    /\ Running /\ pcColl = "got"
    /\ stdout' = IF result # ""
                 THEN Append(stdout, [nl |-> TRUE, by |-> "collector", line |-> <<result>>])
                 ELSE stdout
    /\ pcColl' = "recv"
    /\ UNCHANGED <<hostnames, debugMode, status, pcMain, spawned, pcProd, next,
                   hnChan, resChan, doneChan, wg, workers, result, probed,
                   returned, harnessVars>>

\* collector, lines 178 and 183: resChan is closed, the loop ends; doneChan <- true
CollectorDone ==
    /\ Running /\ pcColl = "recv"
    /\ resChan.closed
    /\ Len(doneChan.buf) < 1
    /\ doneChan' = [doneChan EXCEPT !.buf = Append(@, TRUE)]
    /\ pcColl' = "done"
    /\ UNCHANGED <<hostnames, debugMode, status, pcMain, spawned, pcProd, next,
                   hnChan, resChan, wg, workers, result, stdout, probed,
                   returned, harnessVars>>

MainWait_NoWait ==
    /\ Running /\ pcMain = "wait"
    /\ pcMain' = "close"
    /\ UNCHANGED <<hostnames, debugMode, status, spawned, pcProd, next, hnChan,
                   resChan, doneChan, wg, workers, pcColl, result, stdout,
                   probed, returned, harnessVars>>

\* main, line 185: wg.Wait()
MainWait ==
    /\ Running /\ pcMain = "wait"
    /\ wg = 0
    /\ pcMain' = "close"
    /\ UNCHANGED <<hostnames, debugMode, status, spawned, pcProd, next, hnChan,
                   resChan, doneChan, wg, workers, pcColl, result, stdout,
                   probed, returned, harnessVars>>

\* main, line 186: close(resChan)
MainCloseRes ==
    /\ Running /\ pcMain = "close"
    /\ resChan' = [resChan EXCEPT !.closed = TRUE]
    /\ pcMain' = "recvDone"
    /\ UNCHANGED <<hostnames, debugMode, status, spawned, pcProd, next, hnChan,
                   doneChan, wg, workers, pcColl, result, stdout, probed,
                   returned, harnessVars>>

MainRecvDone_NoWait ==
    /\ Running /\ pcMain = "recvDone"
    /\ doneChan' = [doneChan EXCEPT !.buf = <<>>]
    /\ pcMain' = "print"
    /\ UNCHANGED <<hostnames, debugMode, status, spawned, pcProd, next, hnChan,
                   resChan, wg, workers, pcColl, result, stdout, probed,
                   returned, harnessVars>>

\* main, line 187: <-doneChan
MainRecvDone ==
    /\ Running /\ pcMain = "recvDone"
    /\ Len(doneChan.buf) > 0
    /\ doneChan' = [doneChan EXCEPT !.buf = Tail(@)]
    /\ pcMain' = "print"
    /\ UNCHANGED <<hostnames, debugMode, status, spawned, pcProd, next, hnChan,
                   resChan, wg, workers, pcColl, result, stdout, probed,
                   returned, harnessVars>>

\* main, lines 188-189: print "Done" and return: the process exits 0
MainPrintDone ==
    /\ Running /\ pcMain = "print"
    /\ stdout' = Append(stdout, [nl |-> TRUE, by |-> "main", line |-> <<"Done">>])
    /\ status' = "exit0"
    /\ pcMain' = "done"
    /\ UNCHANGED <<hostnames, debugMode, spawned, pcProd, next, hnChan, resChan,
                   doneChan, wg, workers, pcColl, result, probed, returned,
                   harnessVars>>

Next ==
    \/ MainStart
    \/ ProducerSend
    \/ ProducerClose
    \/ MainSpawnWorker
    \/ MainSpawnCollector
    \/ WorkerRecv
    \/ WorkerHook
    \/ WorkerReturn
    \/ WorkerSend
    \/ WorkerDone
    \/ CollectorPrint
    \/ CollectorDone
    \/ MainWait
    \/ MainCloseRes
    \/ MainRecvDone
    \/ MainPrintDone

Spec == Init /\ [][Next]_vars

\* the Go scheduler runs a goroutine that can take a step
FairSpec == Spec /\ WF_vars(Next)

\* what the pipeline with the connections counted leaves alone
connFrame == <<auditVars, probes, cliVars, reverseVars, contactVars>>

\* worker inside auditHostname, line 97: the dial of tls.DialWithDialer
\* connects; the connection is open from here on
WorkerConnect ==
    /\ Running
    /\ \E w \in BagToSet(workers) :
        /\ w.pc = "probe"
        /\ workers' = (workers (-) One(w)) (+) One(Worker("tls", w.hostname, ""))
    /\ openConns' = openConns + 1
    /\ UNCHANGED <<hostnames, debugMode, status, pcMain, spawned, pcProd, next,
                   hnChan, resChan, doneChan, wg, pcColl, result, stdout,
                   probed, returned, connFrame>>

\* WorkerHook on the open connection
WorkerHookConn ==
    /\ Running
    /\ \E w \in BagToSet(workers) : \E served \in ServedBy(w.hostname) :
        /\ w.pc = "tls"
        /\ HookReached(served)
        /\ LET misconfiguredCertCN == auditChain(served)
               prints == auditChainPrints(served, debugMode)
           IN  IF misconfiguredCertCN = PANIC
               THEN /\ status' = "panic"
                    /\ UNCHANGED <<workers, stdout>>
               ELSE /\ workers' = (workers (-) One(w))
                           (+) One(Worker("hooked", "", misconfiguredCertCN))
                    /\ stdout' = stdout \o
                           [k \in 1..Len(prints) |->
                               [nl |-> TRUE, by |-> "auditChain",
                                line |-> prints[k]]]
                    /\ UNCHANGED status
    /\ UNCHANGED <<hostnames, debugMode, pcMain, spawned, pcProd, next, hnChan,
                   resChan, doneChan, wg, pcColl, result, probed, returned,
                   openConns, connFrame>>

\* worker inside auditHostname, lines 97-98, counting connections:
\* tls.DialWithDialer returns because the dial failed (no connection), or
\* the handshake failed before or after the hook (DialWithDialer closes the
\* connection), or the handshake completed: then it returns the open
\* connection, which auditHostname drops without closing
WorkerReturnConn ==
    /\ Running
    /\ \E w \in BagToSet(workers), handshake \in BOOLEAN :
        /\ \/ w.pc = "probe" /\ ~handshake /\ UNCHANGED openConns
           \/ w.pc = "tls" /\ ~handshake /\ openConns' = openConns - 1
           \/ w.pc = "hooked" /\ ~handshake /\ openConns' = openConns - 1
           \/ w.pc = "hooked" /\ handshake /\ UNCHANGED openConns
        /\ workers' = (workers (-) One(w)) (+) One(Worker("send", "", w.result))
        /\ returned' = returned (+) One(w.result)
    /\ UNCHANGED <<hostnames, debugMode, status, pcMain, spawned, pcProd, next,
                   hnChan, resChan, doneChan, wg, pcColl, result, stdout,
                   probed, connFrame>>

\* the connections the calls in progress hold
HeldConns ==
    LET holding == {w \in BagToSet(workers) : w.pc \in {"tls", "hooked"}}
    IN  BagCardinality([w \in holding |-> workers[w]])

\* the Go runtime: at a garbage collection of its choosing the finalizer of
\* a dropped connection closes it
ConnFinalize ==
    /\ Running
    /\ openConns > HeldConns
    /\ openConns' = openConns - 1
    /\ UNCHANGED <<hostnames, debugMode, status, pcMain, spawned, pcProd, next,
                   hnChan, resChan, doneChan, wg, workers, pcColl, result,
                   stdout, probed, returned, connFrame>>

\* the pipeline with the connections of the probes counted
ConnNext ==
    \/ MainStart
    \/ ProducerSend
    \/ ProducerClose
    \/ MainSpawnWorker
    \/ MainSpawnCollector
    \/ WorkerRecv
    \/ WorkerConnect
    \/ WorkerHookConn
    \/ WorkerReturnConn
    \/ ConnFinalize
    \/ WorkerSend
    \/ WorkerDone
    \/ CollectorPrint
    \/ CollectorDone
    \/ MainWait
    \/ MainCloseRes
    \/ MainRecvDone
    \/ MainPrintDone

\* main started on a short list or on the longest one
ConnInit ==
    /\ Init
    /\ Len(hostnames) <= MaxMixed \/ Len(hostnames) = MaxHosts

ConnSpec == ConnInit /\ [][ConnNext]_vars

(***************************************************************************)
(* auditChain on its own: one call on a raw chain of the bounded set.      *)
(***************************************************************************)
AuditInit ==
    /\ rawCerts \in RawChains
    /\ debugMode \in BOOLEAN
    /\ verdict = "?"
    /\ stdout = <<>>
    /\ hostnames = <<>>
    /\ status = "running"
    /\ pcMain = "audit"
    /\ decoded = <<>>
    /\ PipelineIdle
    /\ ProbeIdle /\ CliIdle /\ ReverseIdle /\ ContactIdle

\* misconfiguredCertCN := auditChain(rawCerts); a panic ends the process
AuditCall ==
    /\ pcMain = "audit" /\ status = "running"
    /\ decoded' = rawToChain(rawCerts)
    /\ verdict' = auditChain(rawCerts)
    /\ status' = IF auditChain(rawCerts) = PANIC THEN "panic" ELSE "running"
    /\ stdout' = IF auditChain(rawCerts) = PANIC THEN stdout
                 ELSE [k \in 1..Len(auditChainPrints(rawCerts, debugMode)) |->
                          [nl |-> TRUE, by |-> "auditChain",
                           line |-> auditChainPrints(rawCerts, debugMode)[k]]]
    /\ pcMain' = "audited"
    /\ UNCHANGED <<hostnames, debugMode, spawned, pcProd, next, hnChan, resChan,
                   doneChan, wg, workers, pcColl, result, probed, returned,
                   openConns, rawCerts, probes, cliVars, reverseVars,
                   contactVars>>

AuditNext == AuditCall

AuditSpec == AuditInit /\ [][AuditNext]_vars

(***************************************************************************)
(* auditHostname step by step: up to MaxProbes calls run at once, each     *)
(* with its own result variable, as the workers of main run them.          *)
(***************************************************************************)
\* a call of auditHostname: its position, its argument, the outcome of its
\* dial, its local variable result and the value it returned
Probe(pc, hostname, dial, res, ret) ==
    [pc |-> pc, hostname |-> hostname, dial |-> dial, result |-> res,
     ret |-> ret]

NoDial == [hook |-> FALSE, rawCerts |-> <<>>, handshake |-> FALSE]

ProbeInit ==
    /\ \E n \in 1..MaxProbes :
          probes \in [1..n -> {Probe("call", h, NoDial, "", "?") : h \in HostPool}]
    /\ debugMode = FALSE
    /\ stdout = <<>>
    /\ hostnames = <<>>
    /\ status = "running"
    /\ pcMain = "probe"
    /\ PipelineIdle
    /\ AuditIdle /\ CliIdle /\ ReverseIdle /\ ContactIdle

\* what a step of a call leaves alone
probeFrame == <<hostnames, debugMode, pcMain, spawned, pcProd, next, hnChan,
                resChan, doneChan, wg, workers, pcColl, result, stdout,
                probed, returned, openConns, auditVars, cliVars, reverseVars,
                contactVars>>

\* auditHostname, lines 87-97: var result string; tls.DialWithDialer starts
\* and meets one of the outcomes of a dial
ProbeDial ==
    /\ Running
    /\ \E p \in DOMAIN probes, dial \in DialOutcomes :
        /\ probes[p].pc = "call"
        /\ probes' = [probes EXCEPT ![p] =
                        Probe(IF dial.hook THEN "hook" ELSE "return",
                              probes[p].hostname, dial, "", "?")]
    /\ UNCHANGED <<status, probeFrame>>

ProbeHook_SharedResult ==
    /\ Running
    /\ \E p \in DOMAIN probes :
        /\ probes[p].pc = "hook"
        /\ LET v == auditChain(probes[p].dial.rawCerts)
           IN  IF v = PANIC
               THEN status' = "panic" /\ UNCHANGED probes
               ELSE /\ probes' = [q \in DOMAIN probes |->
                                    [probes[q] EXCEPT
                                        !.result = v,
                                        !.pc = IF q = p THEN "return" ELSE @]]
                    /\ UNCHANGED status
    /\ UNCHANGED probeFrame

\* the VerifyPeerCertificate hook, lines 91-95: result = auditChain(rawCerts)
\* on the result of this call; a panic in it ends the process
ProbeHook ==
    /\ Running
    /\ \E p \in DOMAIN probes :
        /\ probes[p].pc = "hook"
        /\ LET v == auditChain(probes[p].dial.rawCerts)
           IN  IF v = PANIC
               THEN status' = "panic" /\ UNCHANGED probes
               ELSE /\ probes' = [probes EXCEPT ![p].result = v,
                                                ![p].pc = "return"]
                    /\ UNCHANGED status
    /\ UNCHANGED probeFrame

\* auditHostname, lines 97-98: DialWithDialer returns, its connection and
\* its error are dropped; return result
ProbeReturn ==
    /\ Running
    /\ \E p \in DOMAIN probes :
        /\ probes[p].pc = "return"
        /\ probes' = [probes EXCEPT ![p].ret = probes[p].result,
                                    ![p].pc = "done"]
    /\ UNCHANGED <<status, probeFrame>>

ProbeNext ==
    \/ ProbeDial
    \/ ProbeHook
    \/ ProbeReturn

ProbeSpec == ProbeInit /\ [][ProbeNext]_vars

(***************************************************************************)
(* The start of main: the command line is parsed and the hostname list     *)
(* is tested.                                                              *)
(***************************************************************************)
CliInit ==
    /\ args \in ArgLists
    /\ tsvFile \in TsvFiles
    /\ stderr = <<>>
    /\ debugMode = FALSE
    /\ hostnames = <<>>
    /\ stdout = <<>>
    /\ status = "running"
    /\ pcMain = "parse"
    /\ PipelineIdle
    /\ AuditIdle /\ ProbeIdle /\ ReverseIdle /\ ContactIdle

\* main, lines 139-148: flag.Parse; the hostnames are those of the tsv
\* file if --stats-tsv-file is set, os.Args[1:] otherwise; log.Fatalln in
\* statsTsvToHostnames writes its message to stderr and exits 1
CliParse ==
    /\ Running /\ pcMain = "parse"
    /\ debugMode' = flagParse(args).debug
    /\ IF flagParse(args).statsTsv # ""
       THEN LET read == statsTsvToHostnames(tsvFile)
            IN  IF read.fatal # ""
                THEN /\ stderr' = Append(stderr, read.fatal)
                     /\ status' = "exit1"
                     /\ UNCHANGED <<hostnames, pcMain>>
                ELSE /\ hostnames' = read.hostnames
                     /\ pcMain' = "start"
                     /\ UNCHANGED <<status, stderr>>
       ELSE /\ hostnames' = args
            /\ pcMain' = "start"
            /\ UNCHANGED <<status, stderr>>
    /\ UNCHANGED <<spawned, pcProd, next, hnChan, resChan, doneChan, wg,
                   workers, pcColl, result, stdout, probed, returned,
                   openConns, auditVars, probes, args, tsvFile, reverseVars,
                   contactVars>>

CliNext ==
    \/ CliParse
    \/ MainStart

CliSpec == CliInit /\ [][CliNext]_vars

(***************************************************************************)
(* reverseHostname on its own, applied twice.                              *)
(***************************************************************************)
ReverseInit ==
    /\ name \in Names
    /\ reversed = <<>>
    /\ twice = <<>>
    /\ debugMode = FALSE
    /\ hostnames = <<>>
    /\ stdout = <<>>
    /\ status = "running"
    /\ pcMain = "reverse"
    /\ PipelineIdle
    /\ AuditIdle /\ ProbeIdle /\ CliIdle /\ ContactIdle

reverseFrame == <<hostnames, debugMode, status, spawned, pcProd, next, hnChan,
                  resChan, doneChan, wg, workers, pcColl, result, stdout,
                  probed, returned, openConns, auditVars, probes, cliVars,
                  contactVars>>

\* reversed := reverseHostname(name)
ReverseOnce ==
    /\ pcMain = "reverse"
    /\ reversed' = reverseHostname(name)
    /\ pcMain' = "reversed"
    /\ UNCHANGED <<name, twice, reverseFrame>>

\* twice := reverseHostname(reversed)
ReverseTwice ==
    /\ pcMain = "reversed"
    /\ twice' = reverseHostname(reversed)
    /\ pcMain' = "reversedTwice"
    /\ UNCHANGED <<name, reversed, reverseFrame>>

ReverseNext ==
    \/ ReverseOnce
    \/ ReverseTwice

ReverseSpec == ReverseInit /\ [][ReverseNext]_vars


(***************************************************************************)
(* Properties of the pipeline.                                             *)
(***************************************************************************)
\* the bag of the entries of a list
ListBag(l) ==
    [h \in {l[k] : k \in 1..Len(l)} |-> Cardinality({k \in 1..Len(l) : l[k] = h})]

SameBag(a, b) == a \sqsubseteq b /\ b \sqsubseteq a

\* the lines the collector printed
Findings ==
    LET ks == {k \in 1..Len(stdout) : stdout[k].by = "collector"}
    IN  [v \in {stdout[k].line[1] : k \in ks} |->
            Cardinality({k \in ks : stdout[k].line[1] = v})]

\* the non-empty values auditHostname returned
NonEmptyReturned == [v \in BagToSet(returned) \ {""} |-> returned[v]]

DoneLine == [nl |-> TRUE, by |-> "main", line |-> <<"Done">>]

DonePrinted == \E k \in 1..Len(stdout) : stdout[k] = DoneLine

AllWorkersDone ==
    /\ BagCardinality(workers) = NumWorkers
    /\ \A w \in BagToSet(workers) : w.pc = "done"

\* C1: no hostname is handed to auditHostname more often than the list
\* names it, and when main has finished auditHostname was invoked exactly
\* once per entry of the list: Len(hostnames) times in all.
C1_ProbedExactlyOncePerEntry ==
    /\ probed \sqsubseteq ListBag(hostnames)
    /\ status = "exit0" =>
          /\ SameBag(probed, ListBag(hostnames))
          /\ BagCardinality(probed) = Len(hostnames)

\* main finished a list longer than the worker pool, every entry probed
C1_Witness ==
    /\ status = "exit0"
    /\ Len(hostnames) > NumWorkers
    /\ BagCardinality(probed) = Len(hostnames)

\* C2: with a scheduler that runs some goroutine that can take a step, and
\* probes that return, the process terminates for every list: it exits
\* (status leaves "running") and never stays blocked on a channel or on the
\* WaitGroup.
C2_Terminates == <>(status # "running")

\* a list shorter than the worker pool was audited to the end: the workers
\* that never received a hostname left their loop as well
C2_Witness ==
    /\ status = "exit0"
    /\ Len(hostnames) >= 1 /\ Len(hostnames) < NumWorkers
    /\ AllWorkersDone

\* C3: resChan is closed only when all 10 workers have called wg.Done, a
\* worker calls wg.Done only outside a send, and so no worker sends on the
\* closed channel.
C3_ClosedOnlyAfterAllWorkersDone ==
    /\ wg = BagCardinality(workers)
            - (IF BagIn(Worker("done", "", ""), workers)
               THEN CopiesIn(Worker("done", "", ""), workers) ELSE 0)
    /\ (resChan.closed \/ pcMain \in {"close", "recvDone", "print", "done"}) =>
          wg = 0 /\ AllWorkersDone

\* resChan was closed after workers had sent results on it
C3_Witness ==
    /\ resChan.closed
    /\ BagCardinality(returned) >= 2
    /\ AllWorkersDone

\* C4: the collector prints no line but a non-empty value that
\* auditHostname returned, none more often than it was returned, and when
\* main has finished the lines it printed are, as a bag, the non-empty
\* values returned.
C4_FindingsAreNonEmptyVerdicts ==
    /\ ~BagIn("", Findings)
    /\ Findings \sqsubseteq NonEmptyReturned
    /\ status = "exit0" => SameBag(Findings, NonEmptyReturned)

\* main finished after two probes that returned the same finding, printed
\* twice
C4_Witness ==
    /\ status = "exit0"
    /\ BagIn("example.com", returned)
    /\ returned["example.com"] >= 2
    /\ SameBag(Findings, NonEmptyReturned)

\* C5: "Done" is the last line of the output: no line follows it, and when
\* it is printed every finding has been printed.
C5_DoneIsLast ==
    /\ \A k \in 1..Len(stdout) : stdout[k] = DoneLine => k = Len(stdout)
    /\ DonePrinted => SameBag(Findings, NonEmptyReturned)

\* "Done" printed after a finding
C5_Witness ==
    /\ Len(stdout) >= 2
    /\ stdout[Len(stdout)] = DoneLine
    /\ stdout[Len(stdout) - 1].by = "collector"

\* C6: no outcome of a probe aborts the run: once probing has started the
\* process ends only with every hostname of the list probed and "Done"
\* printed.
C6_NoProbeAbortsTheRun ==
    status \notin {"running", "exit1"} =>
        /\ SameBag(probed, ListBag(hostnames))
        /\ DonePrinted

\* main has finished the list of c.com, whose probe stored no finding, and
\* b.com, whose finding is printed ahead of "Done"
C6_Witness ==
    /\ status = "exit0"
    /\ hostnames = <<"c.com", "b.com">>
    /\ SameBag(probed, ListBag(hostnames))
    /\ BagIn("", returned) /\ BagIn("example.com", returned)
    /\ BagIn("example.com", Findings)
    /\ DonePrinted

(***************************************************************************)
(* Properties of auditChain.                                               *)
(***************************************************************************)
Audited == pcMain = "audited"

\* the decoded chain of the call
Chain == rawToChain(rawCerts)

\* a certificate after the leaf has subject common name r3
NonLeafIsR3 == \E k \in 2..Len(Chain) : Chain[k].Subject.CommonName = r3

\* C7: on a raw chain that decodes to at most one certificate auditChain
\* returns the empty verdict, without a failure.
C7_ShortChainNoIssue ==
    (Audited /\ Len(Chain) <= 1) => verdict = ""

\* C8: on a decoded chain of two or more certificates whose leaf has issuer
\* r3 and none of whose later certificates has subject r3, auditChain
\* returns the subject common name of the leaf.
C8_MissingR3Flagged ==
    (Audited /\ Len(Chain) >= 2 /\ Chain[1].Issuer.CommonName = r3
        /\ ~NonLeafIsR3)
    => verdict = Chain[1].Subject.CommonName

\* a flagged chain whose leaf itself has subject r3
C8_Witness ==
    /\ Audited /\ Len(Chain) >= 2
    /\ Chain[1].Issuer.CommonName = r3 /\ ~NonLeafIsR3
    /\ Chain[1].Subject.CommonName = r3
    /\ verdict = r3

\* C9: on a chain whose leaf has issuer r3 and one of whose later
\* certificates, at whatever index, has subject r3, auditChain returns "".
C9_PresentR3NotFlagged ==
    (Audited /\ Len(Chain) >= 2 /\ Chain[1].Issuer.CommonName = r3
        /\ NonLeafIsR3)
    => verdict = ""

\* r3 is the third certificate only
C9_Witness ==
    /\ Audited /\ Len(Chain) = 3
    /\ Chain[1].Issuer.CommonName = r3
    /\ Chain[2].Subject.CommonName # r3
    /\ Chain[3].Subject.CommonName = r3
    /\ verdict = ""

\* C10: on a chain whose leaf has an issuer other than r3 auditChain
\* returns "", whatever the length and the later subjects.
C10_OtherIssuerNotFlagged ==
    (Audited /\ Len(Chain) >= 1 /\ Chain[1].Issuer.CommonName # r3)
    => verdict = ""

\* a leaf of another issuer with later certificates, none with subject r3
C10_Witness ==
    /\ Audited /\ Len(Chain) >= 2
    /\ Chain[1].Issuer.CommonName # r3
    /\ ~NonLeafIsR3
    /\ Chain[1].Subject.CommonName # ""
    /\ verdict = ""


(***************************************************************************)
(* Properties of auditHostname.                                            *)
(***************************************************************************)
Returned(p) == probes[p].pc = "done"

\* C11: auditHostname returns a non-empty verdict only for a probe whose
\* handshake completed; a probe whose dial or handshake failed, at whatever
\* point, returns "".
C11_FailedProbeReturnsEmpty ==
    \A p \in DOMAIN probes :
        (Returned(p) /\ probes[p].ret # "") => probes[p].dial.handshake

\* C17: what a call of auditHostname returns is decided by the chain of its
\* own handshake alone, "" if its hook never ran, whatever the other calls
\* do in between.
C17_VerdictOfOwnChain ==
    \A p \in DOMAIN probes :
        Returned(p) =>
            probes[p].ret = IF probes[p].dial.hook
                            THEN auditChain(probes[p].dial.rawCerts)
                            ELSE ""

\* two calls returned, one a finding and one, whose hook never ran, ""
C17_Witness ==
    \E p, q \in DOMAIN probes :
        /\ Returned(p) /\ Returned(q)
        /\ probes[p].dial.hook /\ probes[p].ret = "example.com"
        /\ ~probes[q].dial.hook /\ probes[q].ret = ""


(***************************************************************************)
(* Properties of rawToChain.                                               *)
(***************************************************************************)
\* the records of the raw chain that parse, in their order
Parseable == SelectSeq(rawCerts, LAMBDA r : r.der)

\* C12: rawToChain returns the certificates of the parseable records of its
\* input, in their order and as many as there are, whatever malformed
\* records lie between them; it does not fail.
C12_DecodedIsParseableSubsequence ==
    Audited =>
        /\ Len(decoded) = Cardinality({k \in 1..Len(rawCerts) : rawCerts[k].der})
        /\ decoded = [k \in 1..Len(Parseable) |->
                         [Subject |-> [CommonName |-> Parseable[k].subjectCN],
                          Issuer  |-> [CommonName |-> Parseable[k].issuerCN]]]

\* a malformed record between two certificates of different subjects
C12_Witness ==
    /\ Audited /\ Len(rawCerts) = 3
    /\ rawCerts[1].der /\ ~rawCerts[2].der /\ rawCerts[3].der
    /\ rawCerts[1].subjectCN # rawCerts[3].subjectCN
    /\ Len(decoded) = 2
    /\ decoded[1].Subject.CommonName = rawCerts[1].subjectCN
    /\ decoded[2].Subject.CommonName = rawCerts[3].subjectCN


(***************************************************************************)
(* Properties of the command line.                                         *)
(***************************************************************************)
\* the arguments that are not flags
Positional == SelectSeq(args, LAMBDA a : a \notin {DebugFlag, TsvFlag})

\* a hostname is supplied, as an argument or through the tsv file
HostnameSupplied ==
    \/ Positional # <<>>
    \/ /\ \E k \in 1..Len(args) : args[k] = TsvFlag
       /\ tsvFile.opens /\ tsvFile.rows # <<>>

\* main has tested the hostname list (log.Fatalln has not ended the
\* process before)
Tested ==
    /\ stderr = <<>>
    /\ pcMain \notin {"parse", "start"} \/ status = "exit1"

\* the usage is printed and the process has exited with status 1
UsageError ==
    /\ status = "exit1"
    /\ stdout = <<[nl |-> FALSE, by |-> "main", line |-> Usage]>>

\* C13: when no hostname is supplied, as with flags alone, main prints the
\* usage and exits 1 before any probe; when one is supplied it goes on to
\* probe.
C13_UsageErrorIffNoHostname ==
    Tested => (UsageError <=> ~HostnameSupplied)

(***************************************************************************)
(* Properties of reverseHostname.                                          *)
(***************************************************************************)
\* C16: reverseHostname(reverseHostname(h)) = h for every string h, the
\* empty string and a single label included.
C16_ReverseIsInvolution ==
    pcMain = "reversedTwice" => twice = name

\* a name with an empty first label and two more labels
C16_Witness ==
    /\ pcMain = "reversedTwice"
    /\ Len(Split(name, ".")) = 3
    /\ Split(name, ".")[1] = <<>>
    /\ reversed # name
    /\ twice = name


(***************************************************************************)
(* Properties of the resources of the pipeline.                            *)
(***************************************************************************)
\* the workers that have received a hostname and not yet the value of
\* auditHostname for it
Probing == {w \in BagToSet(workers) : w.pc \in {"probe", "tls", "hooked"}}

ProbesInProgress == BagCardinality([w \in Probing |-> workers[w]])

\* C14: at most 10 calls of auditHostname are in progress at any moment,
\* whatever the length of the list: as many workers as main started, each
\* in one call at most.
C14_AtMostTenProbes ==
    /\ BagCardinality(workers) = spawned
    /\ spawned <= NumWorkers
    /\ ProbesInProgress <= NumWorkers

\* all 10 workers are in a call while a further hostname waits in hnChan
C14_Witness ==
    /\ ProbesInProgress = NumWorkers
    /\ Len(hostnames) > NumWorkers
    /\ Len(hnChan.buf) >= 1

\* C18: every probe releases its connection before its worker goes on, so
\* that at most 10 connections are open at any moment, whatever the length
\* of the list.
C18_AtMostTenConnections == openConns <= NumWorkers


(***************************************************************************)
(* The contact auditor (src/cmd/contact-auditor/main.go).  A string is the *)
(* sequence of its pieces, the prefix "mailto:" being one piece; a contact *)
(* field is a JSON array of strings or bytes that are not one.             *)
(***************************************************************************)
\* the prefix tested and trimmed by unmarshalAddresses
Mailto == <<"mailto:">>

\* the contact entries: a valid address, an invalid one, and an entry that
\* holds "mailto:" but not as its prefix
Entries ==
    { <<"mailto:", "a@b.org">>, <<"mailto:", "nobody">>, <<"tel:", "mailto:">> }

ContactFields == UNION { [1..n -> Entries] : n \in 0..MaxEntries }

\* the Contact column: json tells whether the bytes are a JSON array of strings
Contacts ==
    { [json |-> TRUE, fields |-> f] : f \in ContactFields }
        \cup { [json |-> FALSE, fields |-> <<>>] }

\* the rows of a query that selects the contacts c, the addresses not yet
\* extracted
QueryResults(c) ==
    [i \in 1..Len(c) |-> [ID |-> i, Contact |-> c[i], addresses |-> <<>>]]

\* strings.HasPrefix
HasPrefix(str, prefix) ==
    /\ Len(str) >= Len(prefix)
    /\ SubSeq(str, 1, Len(prefix)) = prefix

\* strings.TrimPrefix
TrimPrefix(str, prefix) ==
    IF HasPrefix(str, prefix)
    THEN SubSeq(str, Len(prefix) + 1, Len(str))
    ELSE str

\* json.Unmarshal(r.Contact, &contactFields)
jsonUnmarshal(Contact) ==
    IF Contact.json
    THEN [err |-> "nil", v |-> Contact.fields]
    ELSE [err |-> "unmarshal", v |-> <<>>]

\* policy.ValidEmail: the error it returns, "nil" for a valid address
ValidEmail(address) ==
    IF address = <<"a@b.org">> THEN "nil" ELSE "invalid"

\* the loop of unmarshalAddresses from entry k on
RECURSIVE appendAddresses(_, _, _)
appendAddresses(contactFields, k, addresses) ==
    IF k > Len(contactFields) THEN addresses
    ELSE LET entry == contactFields[k]
         IN  IF HasPrefix(entry, Mailto)
             THEN appendAddresses(contactFields, k + 1,
                                  Append(addresses, TrimPrefix(entry, Mailto)))
             ELSE appendAddresses(contactFields, k + 1, addresses)

\* func (r *queryResult) unmarshalAddresses: the error and r afterwards
unmarshalAddresses(r) ==
    LET u == jsonUnmarshal(r.Contact)
    IN  IF u.err # "nil"
        THEN [err |-> u.err, r |-> r]
        ELSE [err |-> "nil",
              r |-> [r EXCEPT !.addresses = appendAddresses(u.v, 1, @)]]

\* the inner loop of run from address k on: the lines it prints
RECURSIVE validateAddresses(_, _)
validateAddresses(res, k) ==
    IF k > Len(res.addresses) THEN <<>>
    ELSE LET address == res.addresses[k]
         IN  IF ValidEmail(address) # "nil"
             THEN <<[nl |-> TRUE, by |-> "run", line |-> <<address, res.ID>>]>>
                      \o validateAddresses(res, k + 1)
             ELSE validateAddresses(res, k + 1)

ContactInit ==
    /\ \E n \in 0..MaxResults :
           \E c \in [1..n -> Contacts] : holder = QueryResults(c)
    /\ queryErr \in BOOLEAN
    /\ results = <<>>
    /\ ridx = 0
    /\ runRet = <<>>
    /\ debugMode = FALSE
    /\ hostnames = <<>>
    /\ stdout = <<>>
    /\ status = "running"
    /\ pcMain = "run"
    /\ PipelineIdle
    /\ AuditIdle /\ ProbeIdle /\ CliIdle /\ ReverseIdle

contactFrame == <<hostnames, debugMode, status, spawned, pcProd, next, hnChan,
                  resChan, doneChan, wg, workers, pcColl, result, probed,
                  returned, openConns, auditVars, probes, cliVars,
                  reverseVars, holder, queryErr>>

\* results, err := e.collectContacts(); if err != nil { return nil, err }
ContactCollect ==
    /\ pcMain = "run"
    /\ IF queryErr
       THEN /\ runRet' = [results |-> <<>>, err |-> "query"]
            /\ pcMain' = "runReturned"
            /\ UNCHANGED <<results, ridx>>
       ELSE /\ results' = holder
            /\ ridx' = 1
            /\ pcMain' = "runLoop"
            /\ UNCHANGED runRet
    /\ UNCHANGED <<stdout, contactFrame>>

ContactResult_AbortOnInvalid ==
    /\ pcMain = "runLoop"
    /\ ridx <= Len(results)
    /\ LET u == unmarshalAddresses(results[ridx])
       IN  IF u.err # "nil"
           THEN /\ runRet' = [results |-> <<>>, err |-> u.err]
                /\ pcMain' = "runReturned"
                /\ UNCHANGED <<results, ridx, stdout>>
           ELSE IF validateAddresses(u.r, 1) # <<>>
           THEN /\ runRet' = [results |-> <<>>, err |-> "invalid"]
                /\ pcMain' = "runReturned"
                /\ stdout' = stdout \o validateAddresses(u.r, 1)
                /\ UNCHANGED <<results, ridx>>
           ELSE /\ results' = [results EXCEPT ![ridx] = u.r]
                /\ ridx' = ridx + 1
                /\ UNCHANGED <<runRet, pcMain, stdout>>
    /\ UNCHANGED contactFrame

\* one round of the loop over results: unmarshalAddresses, then the loop
\* over the addresses of the result
ContactResult ==
    /\ pcMain = "runLoop"
    /\ ridx <= Len(results)
    /\ LET u == unmarshalAddresses(results[ridx])
       IN  IF u.err # "nil"
           THEN /\ runRet' = [results |-> <<>>, err |-> u.err]
                /\ pcMain' = "runReturned"
                /\ UNCHANGED <<results, ridx, stdout>>
           ELSE /\ results' = [results EXCEPT ![ridx] = u.r]
                /\ stdout' = stdout \o validateAddresses(u.r, 1)
                /\ ridx' = ridx + 1
                /\ UNCHANGED <<runRet, pcMain>>
    /\ UNCHANGED contactFrame

\* return results, nil
ContactReturn ==
    /\ pcMain = "runLoop"
    /\ ridx > Len(results)
    /\ runRet' = [results |-> results, err |-> "nil"]
    /\ pcMain' = "runReturned"
    /\ UNCHANGED <<results, ridx, stdout, contactFrame>>

ContactNext ==
    \/ ContactCollect
    \/ ContactResult
    \/ ContactReturn

ContactSpec == ContactInit /\ [][ContactNext]_vars

(***************************************************************************)
(* Further properties of auditChain.                                       *)
(***************************************************************************)
\* C15: debugMode does not change what auditChain returns nor whether it
\* fails: the call under the flag as set gives what the call under the
\* other value of the flag gives, and a trace is printed in debug mode only.
C15_DebugDoesNotChangeVerdict ==
    Audited =>
        /\ verdict = auditChainIn(rawCerts, ~debugMode)
        /\ (stdout # <<>> => debugMode)

\* a finding returned in debug mode, its trace printed
C15_Witness ==
    /\ Audited /\ debugMode
    /\ Len(stdout) = 1 /\ stdout[1].by = "auditChain"
    /\ verdict = "example.com"
    /\ Len(Chain) = 3

\* C19: what auditChain returns is "" or the subject common name of the
\* first record of the raw chain, also when that record does not parse;
\* never the subject of a later record.
C19_VerdictIsSubjectOfFirstRecord ==
    (Audited /\ verdict # PANIC /\ verdict # "") =>
        /\ rawCerts[1].der
        /\ verdict = rawCerts[1].subjectCN


(***************************************************************************)
(* Properties of the contact auditor.                                      *)
(***************************************************************************)
IsMailto(entry) == Len(entry) >= 1 /\ Head(entry) = "mailto:"

IsInvalid(address) == ValidEmail(address) # "nil"

\* the entries of a contact field that begin with "mailto:", in order,
\* without that prefix
MailtoAddresses(fields) ==
    LET m == SelectSeq(fields, IsMailto)
    IN  [k \in 1..Len(m) |-> Tail(m[k])]

\* the reports of the invalid addresses of row i
ReportsOf(i) ==
    LET bad == SelectSeq(MailtoAddresses(holder[i].Contact.fields), IsInvalid)
    IN  [k \in 1..Len(bad) |-> [nl |-> TRUE, by |-> "run", line |-> <<bad[k], holder[i].ID>>]]

\* the reports of the invalid addresses of the rows from i on
RECURSIVE ReportsFrom(_)
ReportsFrom(i) ==
    IF i > Len(holder) THEN <<>> ELSE ReportsOf(i) \o ReportsFrom(i + 1)

AllUnmarshal == \A i \in 1..Len(holder) : holder[i].Contact.json

RunReturned == pcMain = "runReturned"

\* C20: when the query succeeds and every contact field unmarshals, run
\* returns every row with a nil error, having reported each invalid address
\* of each row in order; run returns an error, and then no results, only
\* when the query fails or a contact field does not unmarshal; and the
\* addresses of a row unmarshalAddresses has handled are the entries of its
\* contact field that begin with "mailto:", in order, without the prefix.
C20_InvalidAddressNeverAborts ==
    /\ (RunReturned /\ ~queryErr /\ AllUnmarshal) =>
           /\ runRet.err = "nil"
           /\ Len(runRet.results) = Len(holder)
           /\ \A i \in 1..Len(holder) :
                  /\ runRet.results[i].ID = holder[i].ID
                  /\ runRet.results[i].Contact = holder[i].Contact
           /\ stdout = ReportsFrom(1)
    /\ (RunReturned /\ runRet.err # "nil") =>
           /\ runRet.results = <<>>
           /\ queryErr \/ ~AllUnmarshal
    /\ (RunReturned /\ runRet.err = "nil") =>
           ~queryErr /\ AllUnmarshal
    /\ pcMain = "runLoop" =>
           \A i \in 1..Len(results) :
               results[i].addresses =
                   IF i < ridx
                   THEN MailtoAddresses(holder[i].Contact.fields)
                   ELSE <<>>

\* run has returned two rows and a nil error after reporting an invalid
\* address of the first row, ahead of a valid address of that row, and an
\* invalid address of the second row
C20_Witness ==
    /\ RunReturned /\ runRet.err = "nil"
    /\ Len(runRet.results) = 2
    /\ runRet.results[1].addresses = << <<"nobody">>, <<"a@b.org">> >>
    /\ runRet.results[2].addresses = << <<"nobody">> >>
    /\ Len(holder[2].Contact.fields) = 2
    /\ Len(stdout) = 2
    /\ stdout[1].line[2] = 1 /\ stdout[2].line[2] = 2

====
